---- MODULE Spec2Model ----
(***************************************************************************)
(* A model of PlaywrightComputer (src/computers/playwright/playwright.py):  *)
(* the session life cycle (__aenter__/__aexit__), the popup listener        *)
(* (_handle_new_page) that runs as its own task on the event loop, and the  *)
(* action methods, each modelled as the sequence of engine commands it      *)
(* awaits.  The caller's coroutine advances one await at a time; every      *)
(* awaited engine command may raise, and popup handlers interleave with it. *)
(***************************************************************************)
EXTENDS Integers, Sequences, FiniteSets, Bags, TLC

(* ------------------------------ bounds --------------------------------- *)

\* Popup pages the browser may spawn during one session.
MaxPopups == 2

\* Longest key list passed to key_combination by the caller.
MaxKeys == 3

(* --------------------------- program constants -------------------------- *)

PLAYWRIGHT_SCREEN_SIZE == <<1440, 900>>

\* A URL is the sequence of its parts, scheme first when it has one:
\* "https://www.google.com" is <<"https://", "www.google.com">>, and
\* "example.com" is <<"example.com">>.
DefaultUrl == <<"https://", "www.google.com">>

AboutBlank == <<"about:blank">>

DefaultMagnitude == 800

GraceDelayMs == 500

HighlightDelayMs == 1000

WaitMs == 5000

(* ------------------------------ input sets ------------------------------ *)

\* Screen points the caller passes as (x, y).
Points == {<<10, 20>>, <<30, 40>>}

\* Direction arguments, two of them outside the supported four.
Directions == {"up", "down", "left", "right", "diagonal", ""}

SupportedDirections == {"up", "down", "left", "right"}

\* Explicit magnitudes; DefaultMagnitude stands for the omitted argument.
Magnitudes == {DefaultMagnitude, 300}

\* Key names the caller passes to key_combination.
Keys == {"Control", "shift", "a"}

\* Texts typed by type_text_at.
Texts == {"hi"}

\* URLs passed to navigate.
NavUrls ==
    {<<"example.com">>, <<"https://", "example.com">>, <<"http://", "x">>,
     <<"ftp://", "x">>}

\* URLs of the pages the browser spawns as popups.
PopupUrls == {<<"https://", "a.test">>, <<"https://", "b.test">>}

\* What page.viewport_size reports: a size, or None (modelled as <<>>).
Viewports == {<<>>, <<1280, 720>>, <<1281, 720>>}

Platforms == {"darwin", "linux"}

(* ------------------------------ key map --------------------------------- *)

\* str.lower() on the key names that occur in the model; names without an
\* upper-case letter are their own image.
LowerTable ==
    [Control |-> "control", Command |-> "command", A |-> "a",
     Delete |-> "delete", Enter |-> "enter", PageDown |-> "pagedown",
     PageUp |-> "pageup", Shift |-> "shift"]

Lower(k) == IF k \in DOMAIN LowerTable THEN LowerTable[k] ELSE k

PLAYWRIGHT_KEY_MAP ==
    [backspace |-> "Backspace", tab |-> "Tab", return |-> "Enter",
     enter |-> "Enter", shift |-> "Shift", control |-> "ControlOrMeta",
     alt |-> "Alt", escape |-> "Escape", space |-> "Space",
     pageup |-> "PageUp", pagedown |-> "PageDown", end |-> "End",
     home |-> "Home", left |-> "ArrowLeft", up |-> "ArrowUp",
     right |-> "ArrowRight", down |-> "ArrowDown", insert |-> "Insert",
     delete |-> "Delete", semicolon |-> ";", equals |-> "=",
     multiply |-> "Multiply", add |-> "Add", separator |-> "Separator",
     subtract |-> "Subtract", decimal |-> "Decimal", divide |-> "Divide",
     f1 |-> "F1", f2 |-> "F2", f3 |-> "F3", f4 |-> "F4", f5 |-> "F5",
     f6 |-> "F6", f7 |-> "F7", f8 |-> "F8", f9 |-> "F9", f10 |-> "F10",
     f11 |-> "F11", f12 |-> "F12", command |-> "Meta"]

\* PLAYWRIGHT_KEY_MAP.get(k.lower(), k)
NormalizeKey(k) ==
    IF Lower(k) \in DOMAIN PLAYWRIGHT_KEY_MAP
    THEN PLAYWRIGHT_KEY_MAP[Lower(k)]
    ELSE k

(* ------------------------------- state ---------------------------------- *)

VARIABLES
    _highlight_mouse,   \* self._highlight_mouse, fixed by __init__
    _playwright,        \* self._playwright: "None" or "set"
    _browser,           \* self._browser
    _context,           \* self._context
    _page,              \* self._page
    engineUp,           \* the automation engine's driver process runs
    browserUp,          \* the browser process runs
    contextOpen,        \* the browsing context is open
    pageOpen,           \* the page behind self._page is open
    pageUrl,            \* its URL (page.url)
    listener,           \* the "page" listener is registered on the context
    popups,             \* bag of spawned pages [st, url, open]: the page and its handler
    phase,              \* life cycle of the session as the caller sees it
    pc,                 \* what the caller's coroutine is in: idle/enter/action/exit
    call,               \* the action invocation in progress (or the last one)
    prog,               \* the engine commands that invocation awaits, in order
    ip,                 \* index of the next command (or step of enter/exit)
    log,                \* commands the invocation has issued so far
    shot,               \* URL shown by the screenshot being captured
    result,             \* outcome of the last action invocation
    exitLog,            \* release commands issued by __aexit__
    exitErr,            \* whether __aexit__ propagated an exception
    task2               \* a second task of the caller awaiting an action method

vars ==
    <<_highlight_mouse, _playwright, _browser, _context, _page, engineUp,
      browserUp, contextOpen, pageOpen, pageUrl, listener, popups, phase, pc,
      call, prog, ip, log, shot, result, exitLog, exitErr, task2>>

handles == <<_playwright, _browser, _context, _page>>

engine == <<engineUp, browserUp, contextOpen, pageOpen>>

(* ------------------------- engine commands ------------------------------ *)

Cmd(op, a) == [op |-> op, a |-> a]

WaitLoad == Cmd("wait_for_load_state", <<>>)

WaitTimeout(ms) == Cmd("wait_for_timeout", <<ms>>)

Screenshot == Cmd("screenshot", <<>>)

\* The synchronous tail of current_state: read page.url, build the EnvState.
ReadUrl == Cmd("read_url", <<>>)

Raise(type, value) == Cmd("raise", <<type, value>>)

\* Commands that act on the page: input, navigation, script evaluation.
InputOps ==
    {"click", "move", "mouse_down", "mouse_up", "wheel", "type", "key_down",
     "key_press", "key_up", "evaluate", "scrollBy", "go_back", "go_forward",
     "goto"}

\* Commands that run in the caller's task without an engine round trip.
SyncOps == {"read_url", "raise"}

KeyOps == {"key_down", "key_press", "key_up"}

Reverse(s) == [i \in 1..Len(s) |-> s[Len(s) + 1 - i]]

(* ------------------------- the action methods --------------------------- *)

\* current_state without the grace delay.
current_state_no_grace == <<WaitLoad, Screenshot, ReadUrl>>

current_state ==
    <<WaitLoad, WaitTimeout(GraceDelayMs), Screenshot, ReadUrl>>

highlight_mouse(p) ==
    IF ~_highlight_mouse
    THEN <<>>
    ELSE <<Cmd("evaluate", p), WaitTimeout(HighlightDelayMs)>>

open_web_browser == current_state

click_at(p) ==
    highlight_mouse(p) \o <<Cmd("click", p), WaitLoad>> \o current_state

hover_at(p) ==
    highlight_mouse(p) \o <<Cmd("move", p), WaitLoad>> \o current_state

\* key_combination releasing the held keys in the order they were pressed.
key_combination_forward_release(keys) ==
    IF keys = <<>>
    THEN <<Raise("IndexError", "")>>
    ELSE LET ks == [i \in 1..Len(keys) |-> NormalizeKey(keys[i])]
             held == SubSeq(ks, 1, Len(ks) - 1)
         IN  [i \in 1..Len(held) |-> Cmd("key_down", <<held[i]>>)]
             \o <<Cmd("key_press", <<ks[Len(ks)]>>)>>
             \o [i \in 1..Len(held) |-> Cmd("key_up", <<held[i]>>)]
             \o current_state

key_combination(keys) ==
    IF keys = <<>>
    THEN <<Raise("IndexError", "")>>
    ELSE LET ks == [i \in 1..Len(keys) |-> NormalizeKey(keys[i])]
             held == SubSeq(ks, 1, Len(ks) - 1)
         IN  [i \in 1..Len(held) |-> Cmd("key_down", <<held[i]>>)]
             \o <<Cmd("key_press", <<ks[Len(ks)]>>)>>
             \o [i \in 1..Len(held) |-> Cmd("key_up", <<Reverse(held)[i]>>)]
             \o current_state

\* type_text_at selecting the field's content and typing over it, with no
\* Delete.
type_text_at_no_delete(p, text, press_enter, clear_before_typing, platform) ==
    highlight_mouse(p) \o <<Cmd("click", p), WaitLoad>>
    \o (IF clear_before_typing
        THEN (IF platform = "darwin"
              THEN key_combination(<<"Command", "A">>)
              ELSE key_combination(<<"Control", "A">>))
        ELSE <<>>)
    \o <<Cmd("type", <<text>>)>>
    \o (IF press_enter THEN key_combination(<<"Enter">>) ELSE <<>>)
    \o <<WaitLoad>> \o current_state

type_text_at(p, text, press_enter, clear_before_typing, platform) ==
    highlight_mouse(p) \o <<Cmd("click", p), WaitLoad>>
    \o (IF clear_before_typing
        THEN (IF platform = "darwin"
              THEN key_combination(<<"Command", "A">>)
              ELSE key_combination(<<"Control", "A">>))
             \o key_combination(<<"Delete">>)
        ELSE <<>>)
    \o <<Cmd("type", <<text>>)>>
    \o (IF press_enter THEN key_combination(<<"Enter">>) ELSE <<>>)
    \o <<WaitLoad>> \o current_state

\* screen_size answering the configured size whatever the page reports.
screen_size_configured(viewport_size) == PLAYWRIGHT_SCREEN_SIZE

screen_size(viewport_size) ==
    IF viewport_size # <<>> THEN viewport_size ELSE PLAYWRIGHT_SCREEN_SIZE

horizontal_document_scroll(direction, viewport_size) ==
    LET horizontal_scroll_amount == screen_size(viewport_size)[1] \div 2
        scroll_argument ==
            IF direction = "left"
            THEN 0 - horizontal_scroll_amount
            ELSE horizontal_scroll_amount
    IN  <<Cmd("scrollBy", <<scroll_argument, 0>>), WaitLoad>> \o current_state

scroll_document(direction, viewport_size) ==
    IF direction = "down" THEN key_combination(<<"PageDown">>)
    ELSE IF direction = "up" THEN key_combination(<<"PageUp">>)
    ELSE IF direction \in {"left", "right"}
         THEN horizontal_document_scroll(direction, viewport_size)
    ELSE <<Raise("ValueError", direction)>>

\* scroll_at without the else branch: an unknown direction scrolls by (0, 0).
scroll_at_silent(p, direction, magnitude) ==
    highlight_mouse(p) \o <<Cmd("move", p), WaitLoad>>
    \o (IF direction = "up" THEN <<Cmd("wheel", <<0, 0 - magnitude>>)>>
        ELSE IF direction = "down" THEN <<Cmd("wheel", <<0, magnitude>>)>>
        ELSE IF direction = "left" THEN <<Cmd("wheel", <<0 - magnitude, 0>>)>>
        ELSE IF direction = "right" THEN <<Cmd("wheel", <<magnitude, 0>>)>>
        ELSE <<Cmd("wheel", <<0, 0>>)>>)
    \o <<WaitLoad>> \o current_state

\* scroll_at looking at the direction right after the pointer move, before
\* the settle wait.
scroll_at_unsettled(p, direction, magnitude) ==
    highlight_mouse(p) \o <<Cmd("move", p)>>
    \o (IF direction = "up" THEN <<WaitLoad, Cmd("wheel", <<0, 0 - magnitude>>)>>
        ELSE IF direction = "down" THEN <<WaitLoad, Cmd("wheel", <<0, magnitude>>)>>
        ELSE IF direction = "left" THEN <<WaitLoad, Cmd("wheel", <<0 - magnitude, 0>>)>>
        ELSE IF direction = "right" THEN <<WaitLoad, Cmd("wheel", <<magnitude, 0>>)>>
        ELSE <<Raise("ValueError", direction)>>)
    \o (IF direction \in SupportedDirections
        THEN <<WaitLoad>> \o current_state
        ELSE <<>>)

\* scroll_at with the sign of "up" lost.
scroll_at_up_unsigned(p, direction, magnitude) ==
    highlight_mouse(p) \o <<Cmd("move", p), WaitLoad>>
    \o (IF direction = "up" THEN <<Cmd("wheel", <<0, magnitude>>)>>
        ELSE IF direction = "down" THEN <<Cmd("wheel", <<0, magnitude>>)>>
        ELSE IF direction = "left" THEN <<Cmd("wheel", <<0 - magnitude, 0>>)>>
        ELSE IF direction = "right" THEN <<Cmd("wheel", <<magnitude, 0>>)>>
        ELSE <<Raise("ValueError", direction)>>)
    \o (IF direction \in SupportedDirections
        THEN <<WaitLoad>> \o current_state
        ELSE <<>>)

scroll_at(p, direction, magnitude) ==
    highlight_mouse(p) \o <<Cmd("move", p), WaitLoad>>
    \o (IF direction = "up" THEN <<Cmd("wheel", <<0, 0 - magnitude>>)>>
        ELSE IF direction = "down" THEN <<Cmd("wheel", <<0, magnitude>>)>>
        ELSE IF direction = "left" THEN <<Cmd("wheel", <<0 - magnitude, 0>>)>>
        ELSE IF direction = "right" THEN <<Cmd("wheel", <<magnitude, 0>>)>>
        ELSE <<Raise("ValueError", direction)>>)
    \o (IF direction \in SupportedDirections
        THEN <<WaitLoad>> \o current_state
        ELSE <<>>)

wait_5_seconds == <<WaitTimeout(WaitMs)>> \o current_state

go_back == <<Cmd("go_back", <<>>), WaitLoad>> \o current_state

go_forward == <<Cmd("go_forward", <<>>), WaitLoad>> \o current_state

\* url.startswith(("http://", "https://"))
StartsWithScheme(url) == url # <<>> /\ url[1] \in {"http://", "https://"}

navigate(url) ==
    LET u == IF ~StartsWithScheme(url) THEN <<"https://">> \o url ELSE url
    IN  <<Cmd("goto", <<u>>), WaitLoad>> \o current_state

search == navigate(DefaultUrl)

\* drag_and_drop pressing the button before the pointer is at the source.
drag_and_drop_early_press(p, destination) ==
    highlight_mouse(p) \o <<Cmd("mouse_down", <<>>), WaitLoad, Cmd("move", p), WaitLoad>>
    \o highlight_mouse(destination)
    \o <<Cmd("move", destination), WaitLoad, Cmd("mouse_up", <<>>)>>
    \o current_state

drag_and_drop(p, destination) ==
    highlight_mouse(p) \o <<Cmd("move", p), WaitLoad, Cmd("mouse_down", <<>>), WaitLoad>>
    \o highlight_mouse(destination)
    \o <<Cmd("move", destination), WaitLoad, Cmd("mouse_up", <<>>)>>
    \o current_state

(* ------------------------------- Init ----------------------------------- *)

NoResult == [kind |-> "none", url |-> <<>>, shot |-> <<>>, etype |-> "", evalue |-> ""]

Snapshot(screenshot, url) ==
    [kind |-> "snapshot", url |-> url, shot |-> screenshot, etype |-> "", evalue |-> ""]

Error(type, value) ==
    [kind |-> "error", url |-> <<>>, shot |-> <<>>, etype |-> type, evalue |-> value]

NoCall == [method |-> "", args |-> <<>>, phase |-> ""]

\* The second task is in no method.
NoTask == [pc |-> "idle", method |-> "", prog |-> <<>>, ip |-> 0]

\* __init__: the handles are None; nothing runs yet.  H holds the values of
\* the highlight_mouse argument.
InitWith(H) ==
    /\ _highlight_mouse \in H
    /\ _playwright = "None"
    /\ _browser = "None"
    /\ _context = "None"
    /\ _page = "None"
    /\ engineUp = FALSE
    /\ browserUp = FALSE
    /\ contextOpen = FALSE
    /\ pageOpen = FALSE
    /\ pageUrl = <<>>
    /\ listener = FALSE
    /\ popups = EmptyBag
    /\ phase = "Unattached"
    /\ pc = "idle"
    /\ call = NoCall
    /\ prog = <<>>
    /\ ip = 0
    /\ log = <<>>
    /\ shot = <<>>
    /\ result = NoResult
    /\ exitLog = <<>>
    /\ exitErr = FALSE
    /\ task2 = NoTask

\* highlight_mouse keeps its default (False).
Init == InitWith({FALSE})

\* highlight_mouse as the request sets it.
InitCalls == InitWith(BOOLEAN)

callVars == <<call, prog, ip, log, shot, result>>

exitVars == <<exitLog, exitErr>>

(* ----------------------------- __aenter__ -------------------------------- *)

EnterInvoke ==
    /\ pc = "idle"
    /\ phase = "Unattached"
    /\ pc' = "enter"
    /\ ip' = 1
    /\ phase' = "Entering"
    /\ UNCHANGED <<_highlight_mouse, task2, handles, engine, pageUrl, listener, popups,
                   call, prog, log, shot, result, exitVars>>

\* self._playwright = await async_playwright().start()
StartEngine ==
    /\ pc = "enter" /\ ip = 1
    /\ _playwright' = "set"
    /\ engineUp' = TRUE
    /\ ip' = 2
    /\ UNCHANGED <<_highlight_mouse, task2, _browser, _context, _page, browserUp,
                   contextOpen, pageOpen, pageUrl, listener, popups, phase, pc,
                   call, prog, log, shot, result, exitVars>>

\* self._browser = await self._playwright.chromium.launch(...)
LaunchBrowser ==
    /\ pc = "enter" /\ ip = 2
    /\ _browser' = "set"
    /\ browserUp' = TRUE
    /\ ip' = 3
    /\ UNCHANGED <<_highlight_mouse, task2, _playwright, _context, _page, engineUp,
                   contextOpen, pageOpen, pageUrl, listener, popups, phase, pc,
                   call, prog, log, shot, result, exitVars>>

\* self._context = await self._browser.new_context(viewport=...)
NewContext ==
    /\ pc = "enter" /\ ip = 3
    /\ _context' = "set"
    /\ contextOpen' = TRUE
    /\ ip' = 4
    /\ UNCHANGED <<_highlight_mouse, task2, _playwright, _browser, _page, engineUp,
                   browserUp, pageOpen, pageUrl, listener, popups, phase, pc,
                   call, prog, log, shot, result, exitVars>>

\* self._page = await self._context.new_page()
NewPage ==
    /\ pc = "enter" /\ ip = 4
    /\ _page' = "set"
    /\ pageOpen' = TRUE
    /\ pageUrl' = AboutBlank
    /\ ip' = 5
    /\ UNCHANGED <<_highlight_mouse, task2, _playwright, _browser, _context, engineUp,
                   browserUp, contextOpen, listener, popups, phase, pc,
                   call, prog, log, shot, result, exitVars>>

\* await self._page.goto(self._initial_url); self._context.on("page", ...);
\* return self.  Nothing is awaited after the navigation, so registering the
\* listener and returning happen in the step that completes it.
InitialGoto ==
    /\ pc = "enter" /\ ip = 5
    /\ pageUrl' = DefaultUrl
    /\ listener' = TRUE
    /\ phase' = "Attached"
    /\ pc' = "idle"
    /\ ip' = 0
    /\ UNCHANGED <<_highlight_mouse, task2, handles, engine, popups,
                   call, prog, log, shot, result, exitVars>>

\* Any of the five awaits of __aenter__ raises: the exception propagates and
\* the assignments made so far stay.
EnterFail ==
    /\ pc = "enter"
    /\ phase' = "EnterFailed"
    /\ pc' = "idle"
    /\ ip' = 0
    /\ UNCHANGED <<_highlight_mouse, task2, handles, engine, pageUrl, listener, popups,
                   call, prog, log, shot, result, exitVars>>

(* ------------------------------ __aexit__ -------------------------------- *)

\* Closing the context (or what owns it) closes every page in it.
ClosedPopups ==
    LET closed(k) == [k EXCEPT !.open = FALSE]
        images == {closed(k) : k \in BagToSet(popups)}
    IN  [k \in images |->
            CopiesIn(k, popups) + CopiesIn([k EXCEPT !.open = TRUE], popups)]

\* The caller leaves the session: after __aenter__ returned, or to clean up
\* after it raised.
ExitInvoke ==
    /\ pc = "idle"
    /\ phase \in {"Attached", "EnterFailed"}
    /\ pc' = "exit"
    /\ ip' = 1
    /\ phase' = "Exiting"
    /\ exitLog' = <<>>
    /\ UNCHANGED <<_highlight_mouse, task2, handles, engine, pageUrl, listener, popups,
                   call, prog, log, shot, result, exitErr>>

\* An awaited release raises: __aexit__ has no handler, the exception
\* propagates and the statements after it are not reached.
ExitRaise(release) ==
    /\ exitLog' = Append(exitLog, release)
    /\ exitErr' = TRUE
    /\ phase' = "ExitFailed"
    /\ pc' = "idle"
    /\ ip' = 0
    /\ UNCHANGED <<_highlight_mouse, task2, handles, engine, pageUrl, listener, popups,
                   call, prog, log, shot, result>>

\* if self._context: await self._context.close()
ExitContext ==
    /\ pc = "exit" /\ ip = 1
    /\ \/ /\ _context = "None"
          /\ ip' = 2
          /\ UNCHANGED <<_highlight_mouse, task2, handles, engine, pageUrl, listener,
                         popups, phase, pc, call, prog, log, shot, result,
                         exitVars>>
       \/ /\ _context # "None"
          /\ exitLog' = Append(exitLog, "context.close")
          /\ contextOpen' = FALSE
          /\ pageOpen' = FALSE
          /\ popups' = ClosedPopups
          /\ ip' = 2
          /\ UNCHANGED <<_highlight_mouse, task2, handles, engineUp, browserUp, pageUrl,
                         listener, phase, pc, call, prog, log, shot, result,
                         exitErr>>
       \/ /\ _context # "None"
          /\ ExitRaise("context.close")

\* if self._browser: await self._browser.close()
ExitBrowser ==
    /\ pc = "exit" /\ ip = 2
    /\ \/ /\ _browser = "None"
          /\ ip' = 3
          /\ UNCHANGED <<_highlight_mouse, task2, handles, engine, pageUrl, listener,
                         popups, phase, pc, call, prog, log, shot, result,
                         exitVars>>
       \/ /\ _browser # "None"
          /\ exitLog' = Append(exitLog, "browser.close")
          /\ browserUp' = FALSE
          /\ contextOpen' = FALSE
          /\ pageOpen' = FALSE
          /\ popups' = ClosedPopups
          /\ ip' = 3
          /\ UNCHANGED <<_highlight_mouse, task2, handles, engineUp, pageUrl, listener,
                         phase, pc, call, prog, log, shot, result, exitErr>>
       \/ /\ _browser # "None"
          /\ ExitRaise("browser.close")

\* if self._playwright: await self._playwright.stop(); then __aexit__ returns.
ExitEngine ==
    /\ pc = "exit" /\ ip = 3
    /\ \/ /\ _playwright = "None"
          /\ phase' = "Exited"
          /\ pc' = "idle"
          /\ ip' = 0
          /\ UNCHANGED <<_highlight_mouse, task2, handles, engine, pageUrl, listener,
                         popups, call, prog, log, shot, result, exitVars>>
       \/ /\ _playwright # "None"
          /\ exitLog' = Append(exitLog, "playwright.stop")
          /\ engineUp' = FALSE
          /\ browserUp' = FALSE
          /\ contextOpen' = FALSE
          /\ pageOpen' = FALSE
          /\ popups' = ClosedPopups
          /\ phase' = "Exited"
          /\ pc' = "idle"
          /\ ip' = 0
          /\ UNCHANGED <<_highlight_mouse, task2, handles, pageUrl, listener, call,
                         prog, log, shot, result, exitErr>>
       \/ /\ _playwright # "None"
          /\ ExitRaise("playwright.stop")

(* ---------------------- popups and _handle_new_page ---------------------- *)

\* A spawned page, k.st telling where its handler is:
\*   "pending"     handler scheduled, new_page.close() not yet completed
\*   "closed"      close completed, self._page.goto(new_url) not yet completed
\*   "closeFailed" the handler ended in new_page.close() raising
\*   "gotoFailed"  the handler ended in self._page.goto(new_url) raising
\*   "unhandled"   spawned while no listener was registered
\* A page whose handler ran to its end leaves the bag.  k.url is new_url, the
\* handler's local, and is <<>> once no handler holds it.
Popup(st, url, open) == [st |-> st, url |-> url, open |-> open]

One(k) == SetToBag({k})

\* The browser opens a second page in the context.  With the listener
\* registered the "page" event schedules _handle_new_page(new_page) as a task
\* of its own; before that (during the initial navigation, or after
\* __aenter__ raised) nobody is told.
PopupSpawn ==
    \E u \in PopupUrls :
        /\ contextOpen /\ pageOpen
        /\ BagCardinality(popups) < MaxPopups
        /\ popups' = popups (+)
               One(IF listener THEN Popup("pending", u, TRUE)
                               ELSE Popup("unhandled", <<>>, TRUE))
        /\ UNCHANGED <<_highlight_mouse, task2, handles, engine, pageUrl, listener,
                       phase, pc, callVars, exitVars>>

\* The handler closing self._page instead of new_page.
handle_new_page_close_wrong_page(k) ==
    /\ k.st = "pending"
    /\ pageOpen' = FALSE
    /\ popups' = (popups (-) One(k)) (+) One(Popup("closed", k.url, k.open))
    /\ UNCHANGED <<_highlight_mouse, task2, handles, engineUp, browserUp, contextOpen,
                   pageUrl, listener, phase, pc, callVars, exitVars>>

\* new_url = new_page.url; await new_page.close()
\* Closing a page that went away with its context is not an error.
handle_new_page_close(k) ==
    /\ k.st = "pending"
    /\ popups' = (popups (-) One(k)) (+) One(Popup("closed", k.url, FALSE))
    /\ UNCHANGED <<_highlight_mouse, task2, handles, engine, pageUrl, listener,
                   phase, pc, callVars, exitVars>>

\* The handler reloading the session's page instead of going to new_url.
handle_new_page_goto_reload(k) ==
    /\ k.st = "closed"
    /\ pageOpen
    /\ pageUrl' = pageUrl
    /\ popups' = popups (-) One(k)
    /\ UNCHANGED <<_highlight_mouse, task2, handles, engine, listener,
                   phase, pc, callVars, exitVars>>

\* await self._page.goto(new_url), on the session's own page; the handler
\* returns.
handle_new_page_goto(k) ==
    /\ k.st = "closed"
    /\ pageOpen
    /\ pageUrl' = k.url
    /\ popups' = popups (-) One(k)
    /\ UNCHANGED <<_highlight_mouse, task2, handles, engine, listener,
                   phase, pc, callVars, exitVars>>

\* An await of the handler raises: its task ends there, nothing catches it.
handle_new_page_raise(k) ==
    /\ k.st \in {"pending", "closed"}
    /\ popups' = (popups (-) One(k)) (+)
           One(Popup(IF k.st = "pending" THEN "closeFailed" ELSE "gotoFailed",
                     <<>>, k.open))
    /\ UNCHANGED <<_highlight_mouse, task2, handles, engine, pageUrl, listener,
                   phase, pc, callVars, exitVars>>

HandlerClose == \E k \in BagToSet(popups) : handle_new_page_close(k)

HandlerGoto == \E k \in BagToSet(popups) : handle_new_page_goto(k)

HandlerRaise == \E k \in BagToSet(popups) : handle_new_page_raise(k)

(* --------------------------- action invocations -------------------------- *)

\* Key lists of length 1..MaxKeys over Keys.
KeyLists == UNION {[1..n -> Keys] : n \in 1..MaxKeys}

\* The arguments the caller draws from when the methods are explored alone.
AllInputs ==
    [points |-> Points, texts |-> Texts, flags |-> BOOLEAN,
     platforms |-> Platforms, directions |-> Directions,
     viewports |-> Viewports, magnitudes |-> Magnitudes, urls |-> NavUrls,
     keys |-> KeyLists]

\* One representative argument list per branch of each method, for the
\* methods running beside the popup handlers and the life cycle.
CoreInputs ==
    [points |-> {<<10, 20>>}, texts |-> Texts, flags |-> {TRUE},
     platforms |-> {"linux"}, directions |-> {"down", "left", "diagonal"},
     viewports |-> {<<>>}, magnitudes |-> {DefaultMagnitude},
     urls |-> {<<"example.com">>}, keys |-> {<<"Control", "a">>}]

\* The caller awaits one action method.  Nothing in the class stops a call
\* before __aenter__ or after __aexit__, so a call is possible whenever the
\* caller is not inside another call.
Invoke(method, args, program) ==
    /\ pc = "idle"
    /\ pc' = "action"
    /\ call' = [method |-> method, args |-> args, phase |-> phase]
    /\ prog' = program
    /\ ip' = 1
    /\ log' = <<>>
    /\ shot' = <<>>
    /\ result' = NoResult
    /\ UNCHANGED <<_highlight_mouse, task2, handles, engine, pageUrl, listener, popups,
                   phase, exitVars>>

Call_open_web_browser == Invoke("open_web_browser", <<>>, open_web_browser)

Call_click_at(I) == \E p \in I.points : Invoke("click_at", <<p>>, click_at(p))

Call_hover_at(I) == \E p \in I.points : Invoke("hover_at", <<p>>, hover_at(p))

\* sys.platform is fixed for the process; it is drawn with the call.
Call_type_text_at(I) ==
    \E p \in I.points, text \in I.texts, press_enter \in I.flags,
       clear_before_typing \in I.flags, platform \in I.platforms :
        Invoke("type_text_at", <<p, text, press_enter, clear_before_typing>>,
               type_text_at(p, text, press_enter, clear_before_typing, platform))

\* page.viewport_size is what the engine reports when screen_size() reads it.
Call_scroll_document(I) ==
    \E direction \in I.directions, viewport_size \in I.viewports :
        Invoke("scroll_document", <<direction, viewport_size>>,
               scroll_document(direction, viewport_size))

Call_scroll_at(I) ==
    \E p \in I.points, direction \in I.directions, magnitude \in I.magnitudes :
        Invoke("scroll_at", <<direction, p, magnitude>>,
               scroll_at(p, direction, magnitude))

Call_wait_5_seconds == Invoke("wait_5_seconds", <<>>, wait_5_seconds)

Call_go_back == Invoke("go_back", <<>>, go_back)

Call_go_forward == Invoke("go_forward", <<>>, go_forward)

Call_search == Invoke("search", <<>>, search)

Call_navigate(I) == \E url \in I.urls : Invoke("navigate", <<url>>, navigate(url))

Call_key_combination(I) ==
    \E keys \in I.keys : Invoke("key_combination", <<keys>>, key_combination(keys))

Call_drag_and_drop(I) ==
    \E p \in I.points, destination \in I.points :
        Invoke("drag_and_drop", <<p, destination>>, drag_and_drop(p, destination))

(* ------------------------- running an invocation ------------------------- *)

\* URLs the page's history may hold next to the current one.
HistoryUrls == {DefaultUrl, AboutBlank}

\* The method goes on to its next await, or, when the command was its last,
\* returns the EnvState.
Advance(c) ==
    /\ log' = Append(log, c)
    /\ IF ip = Len(prog)
       THEN /\ pc' = "done"
            /\ ip' = 0
            /\ result' = IF c.op = "read_url" THEN Snapshot(shot, pageUrl) ELSE NoResult
       ELSE /\ pc' = "action"
            /\ ip' = ip + 1
            /\ result' = result

\* An awaited engine command completes on the open page.  The screenshot is
\* captured in the browser; the caller's coroutine resumes in a later step
\* of the event loop, and the popup handlers run in between.
ActionStep ==
    /\ pc = "action"
    /\ _page # "None"
    /\ LET c == prog[ip] IN
        /\ c.op \notin SyncOps
        /\ pageOpen
        /\ Advance(c)
        /\ shot' = IF c.op = "screenshot" THEN pageUrl ELSE shot
        /\ IF c.op = "goto" THEN pageUrl' = c.a[1]
           ELSE IF c.op \in {"go_back", "go_forward"} THEN pageUrl' \in HistoryUrls
           ELSE pageUrl' = pageUrl
    /\ UNCHANGED <<_highlight_mouse, task2, handles, engine, listener, popups, phase,
                   call, prog, exitVars>>

\* return EnvState(screenshot=screenshot_bytes, url=self._page.url): the URL
\* is read when the caller's task resumes after the screenshot.
ActionReadUrl ==
    /\ pc = "action"
    /\ _page # "None"
    /\ prog[ip].op = "read_url"
    /\ Advance(prog[ip])
    /\ shot' = <<>>
    /\ UNCHANGED <<_highlight_mouse, task2, handles, engine, pageUrl, listener, popups,
                   phase, call, prog, exitVars>>

\* wait_for_load_state on a page that is closed and had loaded: the client
\* answers it without asking the engine.
ActionWaitClosed ==
    /\ pc = "action"
    /\ _page # "None"
    /\ ~pageOpen
    /\ prog[ip].op = "wait_for_load_state"
    /\ Advance(prog[ip])
    /\ UNCHANGED <<_highlight_mouse, task2, handles, engine, pageUrl, listener, popups,
                   phase, call, prog, shot, exitVars>>

\* The method ends in an exception: the caller gets no EnvState.
Throw(type, value) ==
    /\ result' = Error(type, value)
    /\ pc' = "done"
    /\ ip' = 0
    /\ shot' = <<>>
    /\ UNCHANGED <<_highlight_mouse, task2, handles, engine, pageUrl, listener, popups,
                   phase, call, prog, exitVars>>

\* raise ValueError("Unsupported direction: ", direction), or keys[-1] of an
\* empty list.
ActionRaise ==
    /\ pc = "action"
    /\ prog[ip].op = "raise"
    /\ log' = log
    /\ Throw(prog[ip].a[1], prog[ip].a[2])

\* self._page is None: the first self._page.<...> raises AttributeError.
ActionNoPage ==
    /\ pc = "action"
    /\ _page = "None"
    /\ prog[ip].op # "raise"
    /\ log' = log
    /\ Throw("AttributeError", "")

\* A method catching the engine's exception and returning what it has.
ActionFail_partial ==
    /\ pc = "action"
    /\ _page # "None"
    /\ prog[ip].op \notin SyncOps
    /\ log' = Append(log, prog[ip])
    /\ result' = Snapshot(shot, <<>>)
    /\ pc' = "done"
    /\ ip' = 0
    /\ shot' = <<>>
    /\ UNCHANGED <<_highlight_mouse, task2, handles, engine, pageUrl, listener, popups,
                   phase, call, prog, exitVars>>

\* The awaited engine command raises; no method catches it, so the exception
\* leaves the method.
ActionFail ==
    /\ pc = "action"
    /\ _page # "None"
    /\ prog[ip].op \notin SyncOps
    /\ log' = Append(log, prog[ip])
    /\ Throw("EngineError", "")

\* The caller takes the outcome and is free to make its next call.
Resume ==
    /\ pc = "done"
    /\ pc' = "idle"
    /\ call' = NoCall
    /\ prog' = <<>>
    /\ log' = <<>>
    /\ result' = NoResult
    /\ UNCHANGED <<_highlight_mouse, task2, handles, engine, pageUrl, listener, popups,
                   phase, ip, shot, exitVars>>

(* ----------------------- a second task of the caller --------------------- *)

\* The action methods are coroutines of one object and take no lock: a
\* caller that starts two of them together (asyncio.gather, create_task)
\* has both running on self._page, each going on at its own awaits.  The
\* second task calls click_at or type_text_at on the attached session.
Task2Invoke(method, program) ==
    /\ task2.pc = "idle"
    /\ phase = "Attached"
    /\ task2' = [pc |-> "action", method |-> method, prog |-> program, ip |-> 1]
    /\ UNCHANGED <<_highlight_mouse, handles, engine, pageUrl, listener, popups,
                   phase, pc, callVars, exitVars>>

Task2_click_at(I) == \E p \in I.points : Task2Invoke("click_at", click_at(p))

Task2_type_text_at(I) ==
    \E p \in I.points, text \in I.texts, press_enter \in I.flags,
       clear_before_typing \in I.flags, platform \in I.platforms :
        Task2Invoke("type_text_at",
                    type_text_at(p, text, press_enter, clear_before_typing, platform))

\* The second task's awaited command completes on the page (or it reads
\* self._page.url); after the last one its method returns.
Task2Step ==
    /\ task2.pc = "action"
    /\ pageOpen
    /\ task2' = IF task2.ip = Len(task2.prog) THEN NoTask
                ELSE [task2 EXCEPT !.ip = task2.ip + 1]
    /\ UNCHANGED <<_highlight_mouse, handles, engine, pageUrl, listener, popups,
                   phase, pc, callVars, exitVars>>

\* The second task's awaited command raises and its method ends.
Task2Fail ==
    /\ task2.pc = "action"
    /\ task2.prog[task2.ip].op \notin SyncOps
    /\ task2' = NoTask
    /\ UNCHANGED <<_highlight_mouse, handles, engine, pageUrl, listener, popups,
                   phase, pc, callVars, exitVars>>

(* -------------------------------- Next ----------------------------------- *)

Enter ==
    \/ EnterInvoke \/ StartEngine \/ LaunchBrowser \/ NewContext \/ NewPage
    \/ InitialGoto

Calls(I) ==
    \/ Call_open_web_browser \/ Call_click_at(I) \/ Call_hover_at(I)
    \/ Call_type_text_at(I) \/ Call_scroll_document(I) \/ Call_scroll_at(I)
    \/ Call_wait_5_seconds \/ Call_go_back \/ Call_go_forward \/ Call_search
    \/ Call_navigate(I) \/ Call_key_combination(I) \/ Call_drag_and_drop(I)

Run ==
    \/ ActionStep \/ ActionReadUrl \/ ActionRaise \/ ActionNoPage
    \/ ActionFail \/ Resume

\* The session with everything that runs beside it.
Next ==
    \/ Enter \/ EnterFail
    \/ ExitInvoke \/ ExitContext \/ ExitBrowser \/ ExitEngine
    \/ PopupSpawn \/ HandlerClose \/ HandlerGoto \/ HandlerRaise
    \/ Calls(CoreInputs) \/ Run \/ ActionWaitClosed

Spec == Init /\ [][Next]_vars

\* The action methods alone, over all the argument sets: calls before and
\* after __aenter__, no popups and no exit (the page is never closed).
NextCalls == Enter \/ Calls(AllInputs) \/ Run

SpecCalls == InitCalls /\ [][NextCalls]_vars

\* Two tasks of the caller on one session: the first calls any method, the
\* second click_at or type_text_at beside it.
NextGather ==
    \/ Enter \/ Calls(CoreInputs) \/ Run
    \/ Task2_click_at(CoreInputs) \/ Task2_type_text_at(CoreInputs)
    \/ Task2Step \/ Task2Fail

SpecGather == Init /\ [][NextGather]_vars

(* ============================== properties ============================== *)

Range(s) == {s[i] : i \in 1..Len(s)}

\* __aexit__ has ended, by returning or by raising.
ExitEnded == phase \in {"Exited", "ExitFailed"}

\* The session had been Attached: only a completed __aenter__ registers the
\* listener.
WasAttached == listener

Releases == {"context.close", "browser.close", "playwright.stop"}

\* C1: when the exit of an Attached session is over, the context close, the
\* browser close and the engine stop have all been issued, whichever of them
\* failed.
C1_ExitAttemptsAllReleases ==
    (ExitEnded /\ WasAttached) => Releases \subseteq Range(exitLog)

\* C2: the exit of an Attached session never propagates an error to the
\* caller, whichever of the three releases fails.
C2_TeardownFailureNotSurfaced ==
    (ExitEnded /\ WasAttached) => ~exitErr

(* -------------------------------- popups -------------------------------- *)

HandlerRunning(k) == k.st \in {"pending", "closed"}

HandlerFailed(k) == k.st \in {"closeFailed", "gotoFailed"}

\* Open pages of the context: the session's page and the spawned ones.
OpenPopups == BagCardinality([k \in {x \in BagToSet(popups) : x.open} |-> popups[k]])

OpenPages == (IF pageOpen THEN 1 ELSE 0) + OpenPopups

\* C3 as stated: in an Attached session, once no popup handler is running,
\* every page spawned under the listener is closed and its handler has
\* navigated the original page to its URL.
C3_PopupsAlwaysCollapsed ==
    (phase = "Attached" /\ \A k \in BagToSet(popups) : ~HandlerRunning(k))
    => \A k \in BagToSet(popups) :
           k.st # "unhandled" => (~k.open /\ ~HandlerFailed(k))

\* C3 as amended: a handler that runs to its end has closed its spawned page
\* and leaves the original page, still open, at that page's URL; the
\* navigation is issued only after the close has completed.
C3_HandlerCollapsesPopup ==
    /\ [](\A k \in BagToSet(popups) : k.st = "closed" => ~k.open)
    /\ [][\A k \in BagToSet(popups) :
              (HandlerRunning(k) /\ popups' = popups (-) One(k))
              => (k.st = "closed" /\ ~k.open /\ pageOpen' /\ pageUrl' = k.url)]_vars

\* A handler has run to its end while an action was in flight: one page is
\* left, at the popup's URL.
C3_Witness ==
    /\ phase = "Attached"
    /\ pc = "action"
    /\ popups = EmptyBag
    /\ pageUrl \in PopupUrls

\* From the moment __aenter__ has opened the page until __aexit__ is called.
PageRegion == _page # "None" /\ phase \in {"Entering", "Attached"}

\* C4 as stated: from the opening of the page (initial navigation included)
\* to the exit, the context holds exactly one open page.
C4_ExactlyOnePage == PageRegion => OpenPages = 1

\* C4 as amended: in that region the session's own page is open, and every
\* other open page is a spawned page whose close has not completed: its
\* handler has not closed it yet, its close raised, or it was spawned before
\* the listener was registered.  With no such page, exactly one page is open.
C4_OnePagePlusUnclosedPopups ==
    PageRegion =>
        /\ pageOpen
        /\ \A k \in BagToSet(popups) :
               k.open <=> k.st \in {"pending", "closeFailed", "unhandled"}
        /\ (\A k \in BagToSet(popups) : k.st \in {"closed", "gotoFailed"})
               => OpenPages = 1

\* A spawned page has been closed by its handler, which has not navigated
\* yet: one page is open again.
C4_Witness ==
    /\ PageRegion
    /\ OpenPages = 1
    /\ \E k \in BagToSet(popups) : k.st = "closed"

(* --------------------------- the action methods -------------------------- *)

Returned == pc = "done" /\ result.kind = "snapshot"

\* C5: an action that returns has issued, as its last four commands and in
\* this order, the load-settled wait, the 500 ms delay, the screenshot and the
\* URL read, every input or navigation command coming before them; what it
\* returns is the snapshot made of these, and no call ends without either a
\* snapshot or an error.
C5_SnapshotEndsEveryAction ==
    /\ pc = "done" => result.kind \in {"snapshot", "error"}
    /\ Returned =>
        LET n == Len(log) IN
            /\ n >= 4
            /\ log[n - 3].op = "wait_for_load_state"
            /\ log[n - 2].op = "wait_for_timeout"
            /\ log[n - 2].a = <<GraceDelayMs>>
            /\ log[n - 1].op = "screenshot"
            /\ log[n].op = "read_url"
            /\ \A i \in 1..n : log[i].op \in InputOps => i < n - 3
            /\ result.shot # <<>>

\* type_text_at has returned with the highlight on, after its three chords.
C5_Witness ==
    /\ Returned
    /\ call.method = "type_text_at"
    /\ _highlight_mouse
    /\ Len(log) > 20

\* C6: the URL of a returned snapshot is the URL the page showed when the
\* screenshot of that snapshot was taken.
C6_SnapshotUrlIsCapturedUrl == Returned => result.url = result.shot

IsKeyCmd(c) == c.op \in KeyOps

KeyLog == SelectSeq(log, IsKeyCmd)

\* The chord of the claim: K1..K(n-1) down, Kn pressed, K(n-1)..K1 up, each
\* key normalised.
Chord(keys) ==
    LET n == Len(keys) IN
        [i \in 1..(2 * n - 1) |->
            IF i < n THEN Cmd("key_down", <<NormalizeKey(keys[i])>>)
            ELSE IF i = n THEN Cmd("key_press", <<NormalizeKey(keys[n])>>)
            ELSE Cmd("key_up", <<NormalizeKey(keys[2 * n - i])>>)]

IsPrefix(s, t) == Len(s) <= Len(t) /\ s = SubSeq(t, 1, Len(s))

\* C7: the key commands key_combination(keys) has issued are at every moment
\* a prefix of the chord of keys, and the whole chord once it has returned.
C7_KeyChordOrder ==
    (pc \in {"action", "done"} /\ call.method = "key_combination") =>
        /\ IsPrefix(KeyLog, Chord(call.args[1]))
        /\ Returned => KeyLog = Chord(call.args[1])

\* A chord of three keys, the two held ones different, has returned.
C7_Witness ==
    /\ Returned
    /\ call.method = "key_combination"
    /\ Len(call.args[1]) = 3
    /\ call.args[1][1] # call.args[1][2]

BadDirectionCall ==
    /\ pc = "done"
    /\ call.method \in {"scroll_document", "scroll_at"}
    /\ call.args[1] \notin SupportedDirections

IsValueError(r, direction) ==
    r.kind = "error" /\ r.etype = "ValueError" /\ r.evalue = direction

\* C8 as stated: scroll_document and scroll_at with an unsupported direction
\* end in the error that names the direction (here: in an Attached session).
C8_BadDirectionReported ==
    (BadDirectionCall /\ call.phase = "Attached")
    => IsValueError(result, call.args[1])

\* Commands scroll_at awaits before it looks at the direction.
PreCheckOps == {"evaluate", "wait_for_timeout", "move", "wait_for_load_state"}

\* C8 as amended: with an unsupported direction neither method returns a
\* snapshot or scrolls.  scroll_document raises the error naming the direction
\* before any command; scroll_at raises it after its highlight, pointer move
\* and settle wait, unless one of those raises first (AttributeError when
\* there is no page, or the engine's error).
C8_BadDirectionNeverSilent ==
    BadDirectionCall =>
        /\ result.kind = "error"
        /\ \A i \in 1..Len(log) : log[i].op \in PreCheckOps
        /\ call.method = "scroll_document" =>
               IsValueError(result, call.args[1]) /\ log = <<>>
        /\ call.method = "scroll_at" =>
               \/ /\ IsValueError(result, call.args[1])
                  /\ \E i \in 1..Len(log) : log[i].op = "move"
               \/ result.etype \in {"AttributeError", "EngineError"}

\* scroll_at has raised the ValueError after moving the pointer.
C8_Witness ==
    /\ BadDirectionCall
    /\ call.method = "scroll_at"
    /\ IsValueError(result, call.args[1])
    /\ Len(log) >= 2

\* Commands that give input to the page, navigate it or capture it.
PageOps == InputOps \cup {"screenshot"}

\* C9: an action invoked while the session is not Attached returns no
\* snapshot and issues no input, navigation or capture command to an open
\* page.
C9_ActionsRequireAttached ==
    (pc \in {"action", "done"} /\ call.phase # "Attached") =>
        /\ result.kind # "snapshot"
        /\ ~(pageOpen /\ \E i \in 1..Len(log) : log[i].op \in PageOps)

\* C10: an action that ends before its last command ends in an error that
\* carries no screenshot and no URL, with the handles, the resources behind
\* them and the life-cycle state untouched; an Attached session whose action
\* failed is still Attached, and its caller can go on to another action or
\* to the exit.
C10_FailureLeavesSessionAttached ==
    /\ [][(pc = "action" /\ pc' = "done" /\ ip < Len(prog))
          => /\ result'.kind = "error"
             /\ result'.url = <<>> /\ result'.shot = <<>>
             /\ handles' = handles
             /\ engine' = engine
             /\ listener' = listener
             /\ phase' = phase]_vars
    /\ []((pc = "done" /\ result.kind = "error" /\ call.phase = "Attached")
          => (phase = "Attached" /\ _page = "set" /\ _context = "set"
              /\ _browser = "set" /\ _playwright = "set" /\ ENABLED Resume))
    /\ []((pc = "idle" /\ phase = "Attached")
          => (ENABLED ExitInvoke /\ ENABLED Calls(CoreInputs)))

\* In an Attached session an action has failed in its screenshot.
C10_Witness ==
    /\ pc = "done"
    /\ call.phase = "Attached"
    /\ result.etype = "EngineError"
    /\ Len(log) >= 3
    /\ log[Len(log)].op = "screenshot"

(* --------------------------- two tasks, one session ---------------------- *)

\* The first task is inside an action: it has issued a command and its
\* method has not ended.
InFlight == pc = "action" /\ log # <<>>

\* So is the second task.
Task2InFlight == task2.pc = "action" /\ task2.ip > 1

\* C11: no two action invocations are inside their command sequences at
\* once on one session: whichever issued its first command later did so
\* between the other's first command and the other's snapshot.
C11_NoInterleaving == ~(InFlight /\ Task2InFlight)

(* ------------------------------ exit order ------------------------------- *)

ReleaseOrder == <<"context.close", "browser.close", "playwright.stop">>

\* C12: when the exit of an Attached session is over, on whatever path
\* (after a failed action too), the releases were issued as context, then
\* browser, then engine handle, and none of the three is open any more.
C12_ExitReleasesAllInOrder ==
    (ExitEnded /\ WasAttached) =>
        /\ exitLog = ReleaseOrder
        /\ ~contextOpen /\ ~browserUp /\ ~engineUp

(* ------------------------------ type_text_at ----------------------------- *)

\* Two command sequences are the same, command by command.
SameCmds(s, t) ==
    /\ Len(s) = Len(t)
    /\ \A i \in 1..Len(s) : s[i].op = t[i].op /\ s[i].a = t[i].a

PrefixCmds(s, t) == Len(s) <= Len(t) /\ SameCmds(s, SubSeq(t, 1, Len(s)))

IsTypingCmd(c) == c.op \in {"click", "type"} \cup KeyOps

TypingLog == SelectSeq(log, IsTypingCmd)

\* Select-all with the modifier mod, then Delete.
ClearChords(mod) ==
    <<Cmd("key_down", <<mod>>), Cmd("key_press", <<"A">>), Cmd("key_up", <<mod>>),
      Cmd("key_press", <<"Delete">>)>>

\* What the claim has type_text_at(p, text, press_enter, clear) issue.
TypingExpected(p, text, press_enter, clear, mod) ==
    <<Cmd("click", p)>>
    \o (IF clear THEN ClearChords(mod) ELSE <<>>)
    \o <<Cmd("type", <<text>>)>>
    \o (IF press_enter THEN <<Cmd("key_press", <<"Enter">>)>> ELSE <<>>)

SelectAllModifiers == {"ControlOrMeta", "Meta"}

\* C13: the clicks, chords and text type_text_at has issued are at every
\* moment a prefix of: the click at (x,y); the select-all chord and the
\* Delete chord when clear_before_typing and no chord otherwise; the text;
\* the Enter chord exactly when press_enter.  Once it has returned they are
\* the whole of it.
C13_TypeTextChords ==
    (call.method = "type_text_at" /\ pc \in {"action", "done"}) =>
        \E mod \in SelectAllModifiers :
            LET e == TypingExpected(call.args[1], call.args[2], call.args[3],
                                    call.args[4], mod)
            IN  /\ PrefixCmds(TypingLog, e)
                /\ Returned => Len(TypingLog) = Len(e)

C13_Witness ==
    /\ Returned
    /\ call.method = "type_text_at"
    /\ call.args[3] /\ call.args[4]
    /\ Len(TypingLog) = 7

(* -------------------------------- navigate ------------------------------- *)

\* The scheme tokens a URL of the model can start with.
Schemes == {"http://", "https://", "ftp://"}

HasScheme(url) == url # <<>> /\ url[1] \in Schemes

\* The URL of the goto the navigate call has issued.
GotoUrl == log[1].a[1]

NavigateIssued ==
    /\ call.method = "navigate"
    /\ log # <<>>
    /\ log[1].op = "goto"

\* C14: the goto of navigate(url) carries url itself when url has a scheme
\* and https:// followed by url when it has none; navigating to the URL it
\* carried issues the same goto again.
C14_NavigatePrefixesSchemelessOnly ==
    NavigateIssued =>
        LET url == call.args[1] IN
            /\ GotoUrl = (IF HasScheme(url) THEN url ELSE <<"https://">> \o url)
            /\ navigate(GotoUrl)[1].a[1] = GotoUrl

(* -------------------------------- scroll_at ------------------------------ *)

IsWheelCmd(c) == c.op = "wheel"

WheelLog == SelectSeq(log, IsWheelCmd)

\* The wheel delta the claim gives for a direction and a magnitude m.
WheelDelta(direction, m) ==
    IF direction = "up" THEN <<0, 0 - m>>
    ELSE IF direction = "down" THEN <<0, m>>
    ELSE IF direction = "left" THEN <<0 - m, 0>>
    ELSE <<m, 0>>

\* The pointer was moved to p before the command at position j of the log.
MovedBefore(p, j) == \E i \in 1..(j - 1) : log[i].op = "move" /\ log[i].a = p

\* C15: scroll_at in a supported direction issues at most one wheel event,
\* exactly one once it has returned; its delta is (0,-m), (0,m), (-m,0) or
\* (m,0) for up, down, left, right with m the magnitude of the call (800 by
\* default), and the pointer move to (x,y) comes before it.
C15_ScrollAtWheel ==
    (call.method = "scroll_at" /\ call.args[1] \in SupportedDirections
        /\ pc \in {"action", "done"}) =>
        /\ Len(WheelLog) <= 1
        /\ Returned => Len(WheelLog) = 1
        /\ \A j \in 1..Len(log) :
               log[j].op = "wheel" =>
                   /\ log[j].a = WheelDelta(call.args[1], call.args[3])
                   /\ MovedBefore(call.args[2], j)

C15_Witness ==
    /\ Returned
    /\ call.method = "scroll_at"
    /\ call.args[1] = "up"
    /\ call.args[3] = DefaultMagnitude
    /\ Len(WheelLog) = 1
    /\ WheelLog[1].a = <<0, 0 - 800>>

(* ------------------------------ scroll_document -------------------------- *)

IsScrollByCmd(c) == c.op = "scrollBy"

ScrollByLog == SelectSeq(log, IsScrollByCmd)

\* The width the claim scrolls by half of: the live viewport's when the page
\* reports one, the configured one otherwise.
ScrollWidth(viewport_size) ==
    IF viewport_size # <<>> THEN viewport_size[1] ELSE PLAYWRIGHT_SCREEN_SIZE[1]

HalfWidth(viewport_size) == ScrollWidth(viewport_size) \div 2

ScrollDocumentCall(directions) ==
    /\ call.method = "scroll_document"
    /\ call.args[1] \in directions
    /\ pc \in {"action", "done"}

\* C16: scroll_document left/right issues at most one scrollBy, exactly one
\* once it has returned, of (-(w div 2), 0) for left and (+(w div 2), 0) for
\* right, and no key command; up/down issues the PageUp/PageDown press alone
\* and no scrollBy.
C16_ScrollDocumentAmounts ==
    /\ ScrollDocumentCall({"left", "right"}) =>
        /\ KeyLog = <<>>
        /\ Len(ScrollByLog) <= 1
        /\ Returned => Len(ScrollByLog) = 1
        /\ \A j \in 1..Len(ScrollByLog) :
               ScrollByLog[j].a =
                   <<(IF call.args[1] = "left" THEN 0 - HalfWidth(call.args[2])
                      ELSE HalfWidth(call.args[2])), 0>>
    /\ ScrollDocumentCall({"up", "down"}) =>
        /\ ScrollByLog = <<>>
        /\ Len(KeyLog) <= 1
        /\ Returned => Len(KeyLog) = 1
        /\ \A j \in 1..Len(KeyLog) :
               /\ KeyLog[j].op = "key_press"
               /\ KeyLog[j].a =
                      <<IF call.args[1] = "up" THEN "PageUp" ELSE "PageDown">>

\* The live viewport is 1281 wide: left scrolls by -640.
C16_Witness ==
    /\ Returned
    /\ call.method = "scroll_document"
    /\ call.args[1] = "left"
    /\ call.args[2] = <<1281, 720>>
    /\ Len(ScrollByLog) = 1
    /\ ScrollByLog[1].a = <<0 - 640, 0>>

(* ------------------------------ drag_and_drop ---------------------------- *)

\* The commands of highlight_mouse: the marker script and its delay.
IsHighlightCmd(c) ==
    \/ c.op = "evaluate"
    \/ c.op = "wait_for_timeout" /\ c.a = <<HighlightDelayMs>>

IsDragCmd(c) == ~IsHighlightCmd(c) /\ c.op # "read_url"

\* The engine commands of the call, the pointer markers left out.
DragLog == SelectSeq(log, IsDragCmd)

\* The order of the claim: move to the source, settle, button down, settle,
\* move to the destination, settle, button up, snapshot.
DragExpected(p, destination) ==
    <<Cmd("move", p), WaitLoad, Cmd("mouse_down", <<>>), WaitLoad,
      Cmd("move", destination), WaitLoad, Cmd("mouse_up", <<>>),
      WaitLoad, WaitTimeout(GraceDelayMs), Screenshot>>

\* C17: the engine commands drag_and_drop has issued are at every moment a
\* prefix of move-to-source, settle, button down, settle,
\* move-to-destination, settle, button up, snapshot, and all of them once it
\* has returned; so the button goes down after the move to the source and up
\* after the move to the destination.
C17_DragAndDropOrder ==
    (call.method = "drag_and_drop" /\ pc \in {"action", "done"}) =>
        LET e == DragExpected(call.args[1], call.args[2]) IN
            /\ PrefixCmds(DragLog, e)
            /\ Returned => Len(DragLog) = Len(e)

C17_Witness ==
    /\ Returned
    /\ call.method = "drag_and_drop"
    /\ call.args[1] # call.args[2]
    /\ _highlight_mouse
    /\ Len(DragLog) = 10

(* --------------------------- keys left held ------------------------------ *)

\* The commands of the call that completed: when an awaited command raised,
\* it is the last of the log and did not complete.
CompletedLog ==
    IF result.kind = "error" /\ result.etype = "EngineError"
    THEN SubSeq(log, 1, Len(log) - 1)
    ELSE log

IsKeyDown(c) == c.op = "key_down"

IsKeyUp(c) == c.op = "key_up"

\* Keys the call has pressed down and not released.
HeldKeys ==
    Len(SelectSeq(CompletedLog, IsKeyDown)) - Len(SelectSeq(CompletedLog, IsKeyUp))

KeyCombinationEnded == pc = "done" /\ call.method = "key_combination"

\* C18: when key_combination has ended, with a snapshot or with an
\* exception, it has released every key it pressed down.
C18_NoKeyLeftHeld == KeyCombinationEnded => HeldKeys = 0

(* ------------------- scroll_at, unsupported direction -------------------- *)

\* scroll_at was called with an unsupported direction and has raised the
\* ValueError.
ScrollAtRejected ==
    /\ BadDirectionCall
    /\ call.method = "scroll_at"
    /\ IsValueError(result, call.args[1])

\* C19 as stated: when scroll_at rejects an unsupported direction it has
\* issued no engine command.
C19_RejectedBeforeAnyCommand == ScrollAtRejected => log = <<>>

IsntHighlightCmd(c) == ~IsHighlightCmd(c)

\* C19 as amended: when scroll_at rejects an unsupported direction it has
\* issued the pointer marker (when enabled), the pointer move to (x,y) and the
\* settle wait, and nothing else: no wheel event; the page's URL and the
\* session's handles are as before the call.
C19_RejectedAfterPointerMove ==
    ScrollAtRejected =>
        /\ SameCmds(SelectSeq(log, IsntHighlightCmd),
                    <<Cmd("move", call.args[2]), WaitLoad>>)
        /\ Len(SelectSeq(log, IsHighlightCmd)) = (IF _highlight_mouse THEN 2 ELSE 0)
        /\ WheelLog = <<>>
        /\ phase = "Attached" /\ _page = "set" /\ pageOpen

C19_Witness ==
    /\ ScrollAtRejected
    /\ _highlight_mouse
    /\ Len(log) = 4
    /\ log[3].op = "move"

(* ------------------------------ failed enter ----------------------------- *)

\* __aenter__ has raised and the caller has not called __aexit__ itself.
EnterHasFailed == phase = "EnterFailed"

\* C20: when __aenter__ has failed, the engine handle, the browser process
\* and the context it had acquired have been released: none is alive.
C20_FailedEnterReleasesAll ==
    EnterHasFailed => ~engineUp /\ ~browserUp /\ ~contextOpen

====
